---- MODULE Spec2Model ----
(***************************************************************************)
(* Model of "Restaurant wise Delivery Points with Streamlit" (main.py).    *)
(*                                                                         *)
(* The page is a Streamlit script: every widget interaction re-runs the    *)
(* whole script against the cached joined dataset df.  A state of the      *)
(* model is the dataset, the widget values, and what the last run of the   *)
(* script computed and put on the page.                                    *)
(*                                                                         *)
(* Representation of values                                                *)
(*   - coordinates are whole degrees; the datasets place them on the six   *)
(*     axis points of the sphere, where the trigonometric functions of the *)
(*     haversine formula are exact;                                        *)
(*   - an angle in radians is a whole number of quarter turns (pi/2);      *)
(*   - distance_km is a whole number of hundredths of a km (round(2));     *)
(*   - a raw order_date is [ok, day, time]: ok says whether the text       *)
(*     parses, day is the calendar day, time the time of day;              *)
(*   - an optional value (None, NaT) is {} and a present value x is {x};   *)
(*   - a mean is the pair <<sum, count>>.                                  *)
(***************************************************************************)
EXTENDS Integers, Sequences, FiniteSets

VARIABLES
    df,                  \* the joined dataset returned by load_data()
    selected_zone,       \* value of the zone select box
    selected_restaurant, \* value of the restaurant select box, or NoSelection
    show_relation,       \* whether the last run was started by the button
    status,              \* what the last run put on the page
    filtered_df,         \* the per-run frame (distance_km added, dates coerced)
    restaurant_data,     \* rows of the restaurant marker trace
    delivery_data,       \* rows of the delivery marker trace
    edge_lat,            \* latitudes of the connection-line trace
    edge_lon,            \* longitudes of the connection-line trace
    center_lat,          \* map centre, latitude
    center_lon,          \* map centre, longitude
    daily_orders,        \* the trend series
    avg_daily_orders     \* the reported average

vars == <<df, selected_zone, selected_restaurant, show_relation, status,
          filtered_df, restaurant_data, delivery_data, edge_lat, edge_lon,
          center_lat, center_lon, daily_orders, avg_daily_orders>>

-----------------------------------------------------------------------------
(* Bounds and literal values *)

MaxOrders == 3

SelectZone == "Select Zone"
SelectRestaurant == "Select Restaurant"
NoSelection == "<None>"
NaN == "<NaN>"

\* Earth radius in km
R == 6371

-----------------------------------------------------------------------------
(* Generic helpers *)

RECURSIVE SumSeq(_)
SumSeq(s) == IF s = <<>> THEN 0 ELSE Head(s) + SumSeq(Tail(s))

Column(frame, col) == [i \in 1..Len(frame) |-> frame[i][col]]

\* Series.mean() of a non-empty numeric column
Mean(s) == <<SumSeq(s), Len(s)>>

Some(x) == {x}
None == {}

RECURSIVE SortAscending(_)
SortAscending(S) ==
    IF S = {} THEN <<>>
    ELSE LET m == CHOOSE x \in S : \A y \in S : x <= y
         IN <<m>> \o SortAscending(S \ {m})

\* Lexicographic order of the strings that occur in the datasets.
Lexicon == <<"Alpha", "Dhanmondi", "Gulshan">>

LexRank(s) == CHOOSE i \in 1..Len(Lexicon) : Lexicon[i] = s

RECURSIVE SortStrings(_)
SortStrings(S) ==
    IF S = {} THEN <<>>
    ELSE LET m == CHOOSE x \in S : \A y \in S : LexRank(x) <= LexRank(y)
         IN <<m>> \o SortStrings(S \ {m})

\* sorted(values): comparing a missing value (a float) with a str raises
\* TypeError; a single value is never compared.
SortedRaises(S) == NaN \in S /\ Cardinality(S) > 1

\* The sorted list, where sorted(values) does not raise: a lone missing
\* value, or strings in lexicographic order.
Sorted(S) == IF NaN \in S THEN <<NaN>> ELSE SortStrings(S)

\* Series == value: a missing value equals nothing, itself included.
PdEq(a, b) == a # NaN /\ b # NaN /\ a = b

Unique(frame, col) == {frame[i][col] : i \in 1..Len(frame)}

\* frame[mask]: a new frame holding the rows the mask keeps, in order.
RECURSIVE BoolIndex(_, _)
BoolIndex(frame, mask) ==
    IF frame = <<>> THEN <<>>
    ELSE LET rest == BoolIndex(Tail(frame), Tail(mask))
         IN IF Head(mask) THEN <<Head(frame)>> \o rest ELSE rest

Truthy(x) == x # NoSelection /\ x # ""

-----------------------------------------------------------------------------
(* Vectorized haversine distance (lines 59-69) *)

\* np.radians on whole multiples of 90 degrees: quarter turns.
Radians(deg) == deg \div 90

\* cos of q quarter turns
Cos(q) == <<1, 0, -1, 0>>[(q % 4) + 1]

\* Twice sin(d/2)^2 for d quarter turns: sin^2 of a multiple of pi/4 is
\* 0, 1/2, 1, 1/2.
TwiceSinSqHalf(d) == <<0, 1, 2, 1>>[(d % 4) + 1]

\* 2*arctan2(sqrt(a), sqrt(1-a)) in units of pi/4, for a = 0, 1/2, 1
\* given as twice a: arctan2(0,1) = 0, arctan2(s,s) = pi/4,
\* arctan2(1,0) = pi/2.
CentralAngle(twiceA) == 2 * <<0, 1, 2>>[twiceA + 1]

\* pi * x in units of 1e-4, pi = 3.14159265
PiTimes(x) == x * 31415 + (x * 9265) \div 10000

\* R * c in units of 1e-4 km, c in units of pi/4
ArcLength(c) == (PiTimes(R) * c) \div 4

\* Variant: every pair is measured from the first row's origin.
haversine_first_origin(lat1, lon1, lat2, lon2) ==
    [i \in 1..Len(lat1) |->
        LET rlat1 == Radians(lat1[1])
            rlon1 == Radians(lon1[1])
            rlat2 == Radians(lat2[i])
            rlon2 == Radians(lon2[i])
            dlat  == rlat2 - rlat1
            dlon  == rlon2 - rlon1
            a     == TwiceSinSqHalf(dlat)
                       + Cos(rlat1) * Cos(rlat2) * TwiceSinSqHalf(dlon)
        IN ArcLength(CentralAngle(a))]

haversine_vectorized(lat1, lon1, lat2, lon2) ==
    [i \in 1..Len(lat1) |->
        LET rlat1 == Radians(lat1[i])
            rlon1 == Radians(lon1[i])
            rlat2 == Radians(lat2[i])
            rlon2 == Radians(lon2[i])
            dlat  == rlat2 - rlat1
            dlon  == rlon2 - rlon1
            a     == TwiceSinSqHalf(dlat)
                       + Cos(rlat1) * Cos(rlat2) * TwiceSinSqHalf(dlon)
        IN ArcLength(CentralAngle(a))]

\* Series.round(2): 1e-4 km to hundredths of a km, ties to even
Round2(x) ==
    LET q == x \div 100
        r == x % 100
    IN IF r > 50 \/ (r = 50 /\ q % 2 = 1) THEN q + 1 ELSE q

-----------------------------------------------------------------------------
(* The body of the script under the button (lines 49-222), on the frames   *)
(* the script holds: df, the cached dataset, and filtered_df.              *)

FilterMask(data, zone, restaurant) ==
    [i \in 1..Len(data) |->
        PdEq(data[i].ZoneName, zone)
            /\ PdEq(data[i].primaryrestautantname, restaurant)]

\* filtered_df = filtered_df.copy()
Copy(frame) == frame

\* Variant: filtered_df is a view, so the new column reaches df as well.
SetDistanceThroughView(frames) ==
    LET WithDistance(f) ==
            LET d == haversine_vectorized(Column(f, "Latitude"),
                         Column(f, "Longitude"), Column(f, "DeliveryLat"),
                         Column(f, "DeliveryLong"))
            IN [i \in 1..Len(f) |->
                   [c \in DOMAIN f[i] \cup {"distance_km"} |->
                       IF c = "distance_km" THEN Round2(d[i]) ELSE f[i][c]]]
    IN [df |-> WithDistance(frames.df),
        filtered_df |-> WithDistance(frames.filtered_df)]

\* filtered_df["distance_km"] = haversine_vectorized(...).round(2)
SetDistance(frames) ==
    LET f == frames.filtered_df
        d == haversine_vectorized(Column(f, "Latitude"), Column(f, "Longitude"),
                 Column(f, "DeliveryLat"), Column(f, "DeliveryLong"))
    IN [frames EXCEPT !.filtered_df =
           [i \in 1..Len(f) |->
               [c \in DOMAIN f[i] \cup {"distance_km"} |->
                   IF c = "distance_km" THEN Round2(d[i]) ELSE f[i][c]]]]

RestaurantData(f) ==
    [i \in 1..Len(f) |->
        [lat |-> f[i].Latitude, lon |-> f[i].Longitude,
         restaurant_name |-> f[i].Name, ZoneName |-> f[i].ZoneName]]

DeliveryData(f) ==
    [i \in 1..Len(f) |->
        [lat |-> f[i].DeliveryLat, lon |-> f[i].DeliveryLong,
         order_id |-> f[i].OrderId, order_date |-> f[i].order_date,
         distance_km |-> f[i].distance_km]]

\* Variant: the rows are appended without the closing None.
EdgeListChained(f, from, to) ==
    [k \in 1..(2 * Len(f)) |->
        IF k % 2 = 1 THEN Some(f[(k + 1) \div 2][from]) ELSE Some(f[k \div 2][to])]

\* The loop of lines 107-109: three entries per row, the last one None.
RECURSIVE EdgeList(_, _, _)
EdgeList(f, from, to) ==
    IF f = <<>> THEN <<>>
    ELSE <<Some(Head(f)[from]), Some(Head(f)[to]), None>>
             \o EdgeList(Tail(f), from, to)

\* Variant: a value that does not parse becomes a timestamp all the same.
ToDatetimeNoCoerce(raw) == Some(<<raw.day, raw.time>>)

\* pd.to_datetime(value, errors="coerce"): a timestamp, or NaT
ToDatetime(raw) == IF raw.ok THEN Some(<<raw.day, raw.time>>) ELSE None

\* Variant: the key keeps the time of day (hours since day 0).
DtDateKeepsTime(ts) == {t[1] * 24 + t[2] : t \in ts}

\* .dt.date: the calendar day of a timestamp, missing for NaT
DtDate(ts) == {t[1] : t \in ts}

\* filtered_df["order_date"] = pd.to_datetime(filtered_df["order_date"], ...)
CoerceDates(frames) ==
    LET f == frames.filtered_df
    IN [frames EXCEPT !.filtered_df =
           [i \in 1..Len(f) |->
               [f[i] EXCEPT !.order_date = ToDatetime(f[i].order_date)]]]

\* groupby(<dates>).size().reset_index(name="orders"): one row per distinct
\* key, keys ascending, rows with a missing key dropped.
DailyOrders(f) ==
    LET keys == [i \in 1..Len(f) |-> DtDate(f[i].order_date)]
        days == SortAscending(UNION {keys[i] : i \in 1..Len(f)})
    IN [k \in 1..Len(days) |->
           [order_date |-> days[k],
            orders |-> Cardinality({i \in 1..Len(f) : keys[i] = {days[k]}})]]

\* Variant: the mean is taken without the guard for an empty series.
AvgDailyOrdersNoGuard(daily) == Mean(Column(daily, "orders"))

AvgDailyOrders(daily) ==
    IF daily # <<>> THEN Mean(Column(daily, "orders")) ELSE <<0, 1>>

\* What a run leaves on the page when it computes nothing.
Blank(data, outcome) ==
    [df |-> data, status |-> outcome, filtered_df |-> <<>>,
     restaurant_data |-> <<>>, delivery_data |-> <<>>,
     edge_lat |-> <<>>, edge_lon |-> <<>>,
     center_lat |-> <<>>, center_lon |-> <<>>,
     daily_orders |-> <<>>, avg_daily_orders |-> <<>>]

\* Lines 56-222: the else branch, for a non-empty filtered frame.
Relation(data, filtered) ==
    LET frames0 == [df |-> data, filtered_df |-> Copy(filtered)]
        frames1 == SetDistance(frames0)
        f       == frames1.filtered_df
        rdata   == RestaurantData(f)
        frames2 == CoerceDates(frames1)
        daily   == DailyOrders(frames2.filtered_df)
    IN [df |-> frames2.df, status |-> "result",
        filtered_df |-> frames2.filtered_df,
        restaurant_data |-> rdata,
        delivery_data |-> DeliveryData(f),
        edge_lat |-> EdgeList(f, "Latitude", "DeliveryLat"),
        edge_lon |-> EdgeList(f, "Longitude", "DeliveryLong"),
        center_lat |-> Mean(Column(rdata, "lat")),
        center_lon |-> Mean(Column(rdata, "lon")),
        daily_orders |-> daily,
        avg_daily_orders |-> AvgDailyOrders(daily)]

-----------------------------------------------------------------------------
(* The sidebar (lines 27-45) *)

zone_options(data) == <<SelectZone>> \o Sorted(Unique(data, "ZoneName"))

restaurants_in_zone(data, zone) ==
    Unique(BoolIndex(data, [i \in 1..Len(data) |-> PdEq(data[i].ZoneName, zone)]),
           "primaryrestautantname")

\* Line 33 raises when the names of the zone cannot be sorted.
SidebarRaises(data, zone) ==
    zone # SelectZone /\ SortedRaises(restaurants_in_zone(data, zone))

restaurant_options(data, zone) ==
    <<SelectRestaurant>> \o Sorted(restaurants_in_zone(data, zone))

\* The condition of lines 42-44, under which the button exists.
ButtonShown(zone, restaurant) ==
    zone # SelectZone /\ (Truthy(restaurant) /\ restaurant # SelectRestaurant)

\* Variant: the run goes on with an empty filtered frame.
ScriptWithoutEmptyCheck(data, zone, restaurant, pressed) ==
    IF SidebarRaises(data, zone) THEN Blank(data, "error")
    ELSE IF ~(ButtonShown(zone, restaurant) /\ pressed) THEN Blank(data, "idle")
    ELSE Relation(data, BoolIndex(data, FilterMask(data, zone, restaurant)))

\* One run of the script, from line 20 to the end.
Script(data, zone, restaurant, pressed) ==
    IF SidebarRaises(data, zone) THEN Blank(data, "error")
    ELSE IF ~(ButtonShown(zone, restaurant) /\ pressed) THEN Blank(data, "idle")
    ELSE LET filtered == BoolIndex(data, FilterMask(data, zone, restaurant))
         IN IF filtered = <<>> THEN Blank(data, "warning")
            ELSE Relation(data, filtered)

-----------------------------------------------------------------------------
(* Datasets: what load_data() can return.  Every row is an order joined    *)
(* with its branch.  Three families of datasets vary the restaurants, the  *)
(* order dates and the coordinates in turn.                                *)

Zones == {"Dhanmondi", "Gulshan"}

\* primaryrestautantname: a name, or a missing value (an empty CSV cell)
PrimaryNames == {"Alpha", NaN}

\* The six axis points of the sphere, <<latitude, longitude>> in degrees
AxisPoints == {<<0, 0>>, <<0, 90>>, <<0, 180>>, <<0, -90>>, <<90, 0>>, <<-90, 0>>}

\* Branches: display name and coordinates
Sites == {<<"Alpha One", <<0, 90>>>>, <<"Alpha One", <<90, 0>>>>,
          <<"Alpha Two", <<90, 0>>>>}

Unparseable == [ok |-> FALSE, day |-> 0, time |-> 0]

RawDates == {Unparseable}
              \cup {[ok |-> TRUE, day |-> d, time |-> t] : d \in 1..3, t \in {9, 18}}

Row(zone, pname, site, dpoint, date) ==
    [ZoneName |-> zone, primaryrestautantname |-> pname, Name |-> site[1],
     Latitude |-> site[2][1], Longitude |-> site[2][2],
     DeliveryLat |-> dpoint[1], DeliveryLong |-> dpoint[2], order_date |-> date]

NetworkRows ==
    {Row(z, n, s, <<0, 0>>, [ok |-> TRUE, day |-> 1, time |-> 9]) :
        z \in Zones, n \in PrimaryNames, s \in Sites}

TrendRows ==
    {Row("Gulshan", "Alpha", <<"Alpha One", <<0, 90>>>>, <<0, 0>>, d) : d \in RawDates}

GeoRows ==
    {Row("Gulshan", "Alpha", <<"Alpha One", p>>, q, [ok |-> TRUE, day |-> 1, time |-> 9]) :
        p \in AxisPoints, q \in AxisPoints}

\* OrderId is unique per order: the position of the row.
WithOrderIds(rows) ==
    [i \in 1..Len(rows) |->
        [c \in DOMAIN rows[i] \cup {"OrderId"} |->
            IF c = "OrderId" THEN i ELSE rows[i][c]]]

Batches(rows, n) == UNION {[1..k -> rows] : k \in 1..n}

Datasets ==
    {WithOrderIds(b) :
        b \in Batches(NetworkRows, MaxOrders) \cup Batches(TrendRows, MaxOrders)
                \cup {<<r>> : r \in GeoRows}
                \cup {<<r1, r2>> : r1 \in GeoRows, r2 \in GeoRows}}

-----------------------------------------------------------------------------
(* State machine: one action per widget interaction; each re-runs the      *)
(* script.                                                                 *)

Show(page) ==
    /\ df' = page.df
    /\ status' = page.status
    /\ filtered_df' = page.filtered_df
    /\ restaurant_data' = page.restaurant_data
    /\ delivery_data' = page.delivery_data
    /\ edge_lat' = page.edge_lat
    /\ edge_lon' = page.edge_lon
    /\ center_lat' = page.center_lat
    /\ center_lon' = page.center_lon
    /\ daily_orders' = page.daily_orders
    /\ avg_daily_orders' = page.avg_daily_orders

Init ==
    /\ df \in Datasets
    /\ selected_zone = SelectZone
    /\ selected_restaurant = NoSelection
    /\ show_relation = FALSE
    /\ status = "idle"
    /\ filtered_df = <<>>
    /\ restaurant_data = <<>>
    /\ delivery_data = <<>>
    /\ edge_lat = <<>>
    /\ edge_lon = <<>>
    /\ center_lat = <<>>
    /\ center_lon = <<>>
    /\ daily_orders = <<>>
    /\ avg_daily_orders = <<>>

Elements(s) == {s[i] : i \in 1..Len(s)}

\* The restaurant select box after the zone changes to z: it keeps its
\* value when it is shown again with the same options, and otherwise starts
\* at its first option; it is not shown when no zone is chosen (line 39) or
\* line 33 raised.
RestaurantAfterZone(z) ==
    IF z = SelectZone \/ SidebarRaises(df, z) THEN NoSelection
    ELSE IF selected_zone # SelectZone /\ ~SidebarRaises(df, selected_zone)
              /\ restaurant_options(df, selected_zone) = restaurant_options(df, z)
         THEN selected_restaurant
         ELSE SelectRestaurant

\* The user picks a zone (line 29).
ChooseZone(z) ==
    /\ z \in Elements(zone_options(df))
    /\ z # selected_zone
    /\ selected_zone' = z
    /\ selected_restaurant' = RestaurantAfterZone(z)
    /\ show_relation' = FALSE
    /\ Show(Script(df, z, RestaurantAfterZone(z), FALSE))

\* The user picks a restaurant (line 35).
ChooseRestaurant(r) ==
    /\ selected_zone # SelectZone
    /\ ~SidebarRaises(df, selected_zone)
    /\ r \in Elements(restaurant_options(df, selected_zone))
    /\ r # selected_restaurant
    /\ selected_restaurant' = r
    /\ show_relation' = FALSE
    /\ UNCHANGED selected_zone
    /\ Show(Script(df, selected_zone, r, FALSE))

\* The user presses "Show Relation" (line 45).
PressShowRelation ==
    /\ ~SidebarRaises(df, selected_zone)
    /\ ButtonShown(selected_zone, selected_restaurant)
    /\ show_relation' = TRUE
    /\ UNCHANGED <<selected_zone, selected_restaurant>>
    /\ Show(Script(df, selected_zone, selected_restaurant, TRUE))

Next ==
    \/ \E z \in Zones \cup {SelectZone} : ChooseZone(z)
    \/ \E r \in PrimaryNames \cup {SelectRestaurant} : ChooseRestaurant(r)
    \/ PressShowRelation

Spec == Init /\ [][Next]_vars

-----------------------------------------------------------------------------
(* Properties.  They are stated on the dataset and the widget values, not  *)
(* on the operators of the script.                                         *)

\* A record of the dataset matches the selection.
Matches(row) ==
    /\ row.ZoneName = selected_zone
    /\ row.primaryrestautantname = selected_restaurant
    /\ selected_restaurant # NaN

\* The records the selection matches, in dataset order.
Matching == SelectSeq(df, Matches)

Chosen ==
    /\ selected_zone # SelectZone
    /\ selected_restaurant \notin {NoSelection, SelectRestaurant}

Triples(rows) ==
    {<<rows[i].Latitude, rows[i].Longitude, rows[i].Name>> : i \in 1..Len(rows)}

RECURSIVE SumOver(_, _)
SumOver(S, k) ==
    IF S = {} THEN 0
    ELSE LET x == CHOOSE y \in S : TRUE IN x[k] + SumOver(S \ {x}, k)

Parseable(rows) == {i \in 1..Len(rows) : rows[i].order_date.ok}

Days(rows) == {rows[i].order_date.day : i \in Parseable(rows)}

NothingComputed ==
    /\ filtered_df = <<>> /\ restaurant_data = <<>> /\ delivery_data = <<>>
    /\ edge_lat = <<>> /\ edge_lon = <<>>
    /\ center_lat = <<>> /\ center_lon = <<>>
    /\ daily_orders = <<>> /\ avg_daily_orders = <<>>

\* C1: when a result is shown, the restaurant node set holds exactly one
\* entry per distinct (latitude, longitude, name) triple of the matching
\* records.
C1_OneNodePerRestaurant ==
    status = "result" =>
        /\ Len(restaurant_data) = Cardinality(Triples(Matching))
        /\ \A i, j \in 1..Len(restaurant_data) :
               restaurant_data[i] = restaurant_data[j] => i = j

\* C2: when a result is shown for N matching records, there are N delivery
\* nodes and N edges; the i-th edge runs from the i-th record's restaurant
\* coordinate to its delivery coordinate and is closed by a gap, so no edge
\* continues into the next.
C2_OneDeliveryAndEdgePerRecord ==
    status = "result" =>
        LET n == Len(Matching) IN
        /\ Len(delivery_data) = n
        /\ Len(edge_lat) = 3 * n /\ Len(edge_lon) = 3 * n
        /\ \A i \in 1..n :
              /\ delivery_data[i].lat = Matching[i].DeliveryLat
              /\ delivery_data[i].lon = Matching[i].DeliveryLong
              /\ delivery_data[i].order_id = Matching[i].OrderId
              /\ edge_lat[3 * i - 2] = {Matching[i].Latitude}
              /\ edge_lon[3 * i - 2] = {Matching[i].Longitude}
              /\ edge_lat[3 * i - 1] = {Matching[i].DeliveryLat}
              /\ edge_lon[3 * i - 1] = {Matching[i].DeliveryLong}
              /\ edge_lat[3 * i] = {} /\ edge_lon[3 * i] = {}

C2_Witness ==
    /\ status = "result"
    /\ Len(Matching) = 2
    /\ Matching[1].Latitude # Matching[2].Latitude
    /\ Matching[1].DeliveryLong # Matching[2].DeliveryLong
    /\ Len(edge_lat) = 6

\* C3: anything is computed only in a run where a zone and a restaurant are
\* chosen and the button was pressed; every other run produces no result
\* and raises no error.
C3_GateAndNoError ==
    /\ ~NothingComputed => Chosen /\ show_relation
    /\ ~(Chosen /\ show_relation) => status \notin {"result", "error"}

\* The gate alone: nothing is computed without both choices and the button.
C3_GateOnly == ~NothingComputed \/ status = "result" => Chosen /\ show_relation

\* C4: when the button is pressed and no record matches the selection, the
\* warning is shown and nothing is computed; a warning never comes with a
\* populated result.
C4_EmptySelectionWarns ==
    /\ Chosen /\ show_relation /\ Matching = <<>> => status = "warning"
    /\ status = "warning" => NothingComputed /\ Matching = <<>>
    /\ status = "result" => Matching # <<>>

C4_Witness ==
    /\ status = "warning" /\ show_relation /\ Chosen
    /\ \E i \in 1..Len(df) : df[i].ZoneName = selected_zone

\* C5: the counts of the trend series add up to the number of matching
\* records with a parseable order_date; unparseable dates raise no error.
C5_CountsAddUp ==
    status = "result" =>
        SumSeq(Column(daily_orders, "orders")) = Cardinality(Parseable(Matching))

C5_Witness ==
    /\ status = "result"
    /\ Parseable(Matching) # {}
    /\ Parseable(Matching) # 1..Len(Matching)

\* C6: the average is the number of parseable matching records divided by
\* the number of distinct calendar days, and is 0 (a number) when no date
\* parses.
C6_Average ==
    status = "result" =>
        /\ avg_daily_orders[2] > 0
        /\ avg_daily_orders[1] * Cardinality(Days(Matching))
               = Cardinality(Parseable(Matching)) * avg_daily_orders[2]
        /\ Parseable(Matching) = {} => avg_daily_orders[1] = 0

C6_Witness ==
    /\ status = "result"
    /\ Len(Matching) >= 2
    /\ Parseable(Matching) = {}
    /\ avg_daily_orders[1] = 0

\* C7: the trend series has one pair per distinct calendar day among the
\* parseable dates, counting the records of that day whatever their time,
\* in strictly ascending order of the day.
C7_OnePairPerDayAscending ==
    status = "result" =>
        /\ {daily_orders[k].order_date : k \in 1..Len(daily_orders)} = Days(Matching)
        /\ \A k \in 1..Len(daily_orders) :
               daily_orders[k].orders =
                   Cardinality({i \in Parseable(Matching) :
                       Matching[i].order_date.day = daily_orders[k].order_date})
        /\ \A k \in 1..(Len(daily_orders) - 1) :
               daily_orders[k].order_date < daily_orders[k + 1].order_date

C7_Witness ==
    /\ status = "result"
    /\ Len(Matching) = 3
    /\ Matching[1].order_date = [ok |-> TRUE, day |-> 2, time |-> 9]
    /\ Matching[2].order_date = [ok |-> TRUE, day |-> 1, time |-> 18]
    /\ Matching[3].order_date = [ok |-> TRUE, day |-> 1, time |-> 9]
    /\ daily_orders = <<[order_date |-> 1, orders |-> 2], [order_date |-> 2, orders |-> 1]>>
    /\ avg_daily_orders = <<3, 2>>

\* C8: the map centre is the mean of the latitudes, and of the longitudes,
\* of the restaurant nodes, one node per distinct (latitude, longitude,
\* name) triple, whatever the number of orders of each.
C8_CentreOfNodes ==
    status = "result" =>
        LET nodes == Triples(Matching) IN
        /\ center_lat[1] * Cardinality(nodes) = SumOver(nodes, 1) * center_lat[2]
        /\ center_lon[1] * Cardinality(nodes) = SumOver(nodes, 2) * center_lon[2]

\* C9: no interaction changes the loaded dataset: distance_km and the
\* coerced dates exist only in the frame of the run.
C9_DatasetUnchanged == [][df' = df]_vars

C9_Witness ==
    /\ status = "result"
    /\ \A i \in 1..Len(filtered_df) : "distance_km" \in DOMAIN filtered_df[i]
    /\ \A i \in 1..Len(df) :
          /\ "distance_km" \notin DOMAIN df[i]
          /\ df[i].order_date \in RawDates
    /\ \E i \in 1..Len(filtered_df) : filtered_df[i].order_date = None

Coordinates(row) ==
    <<row.Latitude, row.Longitude, row.DeliveryLat, row.DeliveryLong>>

\* The parts of C10 that do not depend on the upper bound: distance_km is
\* not negative, is 0 for identical coordinates, and is the same for any
\* two records with the same four coordinates.
DistanceBasics ==
    /\ \A i \in 1..Len(delivery_data) :
          /\ delivery_data[i].distance_km >= 0
          /\ (Matching[i].Latitude = Matching[i].DeliveryLat
                /\ Matching[i].Longitude = Matching[i].DeliveryLong)
               => delivery_data[i].distance_km = 0
    /\ \A i, j \in 1..Len(delivery_data) :
          Coordinates(Matching[i]) = Coordinates(Matching[j])
              => delivery_data[i].distance_km = delivery_data[j].distance_km

\* C10 as stated: in addition, distance_km <= pi * 6371.0 (compared in
\* units of 1e-4 km).
C10_Original ==
    status = "result" =>
        /\ DistanceBasics
        /\ \A i \in 1..Len(delivery_data) :
               delivery_data[i].distance_km * 100 <= PiTimes(R)

\* C10 amended: distance_km is at most pi * 6371.0 rounded to two decimals
\* (20015.09), is not negative, is 0 for identical coordinates and depends
\* only on the record's own coordinates.
C10_RoundedBound ==
    status = "result" =>
        /\ DistanceBasics
        /\ \A i \in 1..Len(delivery_data) :
               delivery_data[i].distance_km <= Round2(PiTimes(R))

C10_Witness ==
    /\ status = "result"
    /\ Len(delivery_data) = 2
    /\ delivery_data[1].distance_km = 0
    /\ delivery_data[2].distance_km * 100 > PiTimes(R)
    /\ Matching[1].Latitude # Matching[2].Latitude

====
